---- MODULE Spec2Model ----
(***************************************************************************)
(* EcoGuard: ingestion of hazard feeds into the Event collection, the      *)
(* ingestion routes, the subscription routes and the alert fanout          *)
(* (AlertService).                                                         *)
(*                                                                         *)
(* Units.  Severities, magnitudes: tenths (5.2 is 52).  Coordinates:       *)
(* thousandths of a degree (101.0 is 101000).  Time: minutes (Date.now()   *)
(* is clock).  Divisions of the code are floating point; here they are     *)
(* integer divisions on the scaled values.                                 *)
(***************************************************************************)
EXTENDS Integers, Sequences, FiniteSets, TLC

VARIABLES
    clock,      \* Date.now()
    events,     \* the Event collection: _id -> document
    subs,       \* the Subscription collection: _id -> document
    runs,       \* adapter calls in flight: slot -> position of the call
    calls,      \* number of route requests accepted so far
    resp,       \* route -> the last response sent by that route
    pending,    \* detached AlertService.processNewEvents calls not yet run
    fanout,     \* what the latest processNewEvents run did
    prevAttempts, \* the dispatch attempts of the run before it
    seen,       \* history: kind of record -> upstream payloads written so far
    env,        \* process.env, read once at start-up
    subReqs,    \* number of subscription route requests so far
    called,     \* the latest call of a function on its own: name, arguments, value
    heatmap     \* the GET /heatmap request: its position in the handler, its answer

vars == <<clock, events, subs, runs, calls, resp, pending, fanout, prevAttempts, seen, env,
          subReqs, called, heatmap>>

NotCalled == [fn |-> "none"]

NoHeatmap == [st |-> "idle"]

----------------------------------------------------------------------------
(* Bounds of the model *)

MaxClock == 12          \* the clock stops advancing here
TickMinutes == 6        \* one step of the clock
MaxCalls == 2           \* ingestion route requests per behaviour
MaxSubRequests == 2     \* subscription route requests per behaviour
MaxUnits == 2           \* countries / locations visited by one adapter call

----------------------------------------------------------------------------
(* Small arithmetic *)

Max(a, b) == IF a >= b THEN a ELSE b
Min(a, b) == IF a <= b THEN a ELSE b

KmPerDegree == 111

\* radiusKm / 111, for a radius given as num/den km, in thousandths of a degree
RadiusDegrees(num, den) == (num * 1000) \div (den * KmPerDegree)

BoxAround(lng, lat, r) == <<lng - r, lat - r, lng + r, lat + r>>

----------------------------------------------------------------------------
(* The Event collection (mongoose model Event, keyed by _id) *)

\* a write that leaves the area_bbox of a stored document as it was
FindOneAndUpdateKeepingBox(store, eventData) ==
    [i \in DOMAIN store \cup {eventData._id} |->
        IF i # eventData._id THEN store[i]
        ELSE IF i \in DOMAIN store THEN [eventData EXCEPT !.area_bbox = store[i].area_bbox]
        ELSE eventData]

\* Event.findOneAndUpdate({_id}, eventData, {upsert: true, new: true}): the
\* update document has no operators, so every field of eventData is $set,
\* ingested_at included; the document is created when the _id is absent.
FindOneAndUpdate(store, eventData) ==
    [i \in DOMAIN store \cup {eventData._id} |->
        IF i = eventData._id THEN eventData ELSE store[i]]

\* "new: true": the call returns the document as it is after the write
Returned(store, eventData) == FindOneAndUpdate(store, eventData)[eventData._id]

\* result.ingested_at.getTime() === eventData.ingested_at.getTime()
CountsAsInserted(result, eventData) == result.ingested_at = eventData.ingested_at

----------------------------------------------------------------------------
(* USGSService *)

UsgsMinMagnitude == 25

\* a footprint of 5 km of radius per unit of magnitude
UsgsBoundingBoxNarrow(lng, lat, magnitude) ==
    BoxAround(lng, lat, RadiusDegrees(Max(100, magnitude * 5), 10))

\* calculateBoundingBox: radiusKm = max(10, magnitude * 50)
UsgsBoundingBox(lng, lat, magnitude) ==
    BoxAround(lng, lat, RadiusDegrees(Max(100, magnitude * 50), 10))

UsgsSkips(feature) == feature.mag < UsgsMinMagnitude

UsgsEventData(feature, now) ==
    [ _id         |-> "usgs-" \o feature.id,
      source      |-> "usgs",
      type        |-> "earthquake",
      severity    |-> feature.mag,
      geometry    |-> <<feature.lng, feature.lat>>,
      area_bbox   |-> UsgsBoundingBox(feature.lng, feature.lat, feature.mag),
      starts_at   |-> feature.time,
      properties  |-> [place |-> feature.place, location_name |-> ""],
      ingested_at |-> now ]

\* the features the modelled feed can carry: q1 at magnitude 5.2, q1 again
\* with a revised magnitude, q2 below the threshold, q3 stored but mild, q4
UsgsFeature(id, mag, lng, lat) ==
    [id |-> id, mag |-> mag, lng |-> lng, lat |-> lat, time |-> 0, place |-> "Kuala Lumpur"]

UsgsFeeds ==
    { << UsgsFeature("q1", 52, 101000, 3000) >>,
      << UsgsFeature("q1", 45, 101000, 3000), UsgsFeature("q2", 20, 101000, 3000) >>,
      << UsgsFeature("q3", 30, 103000, 1000), UsgsFeature("q4", 61, 101000, 3000) >> }

----------------------------------------------------------------------------
(* NASAService: EONET *)

\* mapEONETCategory
MapEONETCategory(categoryId) ==
    CASE categoryId = 6 -> "earthquake"
      [] categoryId = 8 -> "fire"
      [] categoryId = 9 -> "flood"
      [] categoryId \in {13, 14} -> "aqi"
      [] OTHER -> "storm"

\* calculateEONETSeverity; the title is the set of its lower-cased words
CalculateEONETSeverity(categoryId, title) ==
    LET base == CASE categoryId = 6 -> 70
                  [] categoryId = 8 -> 65
                  [] categoryId = 9 -> 75
                  [] categoryId = 10 -> 60
                  [] categoryId = 12 -> 80
                  [] OTHER -> 50
        a == IF title \cap {"major", "severe"} # {} THEN 10 ELSE 0
        b == IF title \cap {"extreme", "catastrophic"} # {} THEN 20 ELSE 0
        c == IF title \cap {"minor", "small"} # {} THEN 10 ELSE 0
    IN  Max(10, Min(100, base + a + b - c))

\* calculateBoundingBoxFromGeometry, Point branch (radius 0.1 degree) and the
\* fall-through; the modelled feed carries Point geometries only
BoundingBoxFromGeometry(geometry) ==
    IF geometry.type = "Point"
    THEN BoxAround(geometry.lng, geometry.lat, 100)
    ELSE <<0, 0, 0, 0>>

\* "if (!event.geometry || event.geometry.length === 0) continue"
EonetSkips(event) == ~event.hasGeometry

EonetEventData(event, now) ==
    [ _id         |-> "nasa-eonet-" \o event.id,
      source      |-> "nasa-eonet",
      type        |-> MapEONETCategory(event.category),
      severity    |-> CalculateEONETSeverity(event.category, event.title),
      geometry    |-> <<event.lng, event.lat>>,
      area_bbox   |-> BoundingBoxFromGeometry([type |-> "Point", lng |-> event.lng, lat |-> event.lat]),
      starts_at   |-> event.date,
      properties  |-> [place |-> "", location_name |-> ""],
      ingested_at |-> now ]

EonetEvent(id, category, title, hasGeometry) ==
    [id |-> id, category |-> category, title |-> title, hasGeometry |-> hasGeometry,
     lng |-> 101000, lat |-> 3000, date |-> 0]

EonetFeeds ==
    { << EonetEvent("EONET_1", 8, {"wildfire"}, TRUE) >>,
      << EonetEvent("EONET_1", 8, {"major", "wildfire"}, TRUE),
         EonetEvent("EONET_2", 10, {"storm"}, FALSE) >> }

----------------------------------------------------------------------------
(* NASAService: FIRMS, one request per country *)

FirmsCountries == <<"MYS", "SGP", "IDN", "THA">>

FirmsMinConfidence == 30

\* calculateFireSeverity (brightness in kelvin, confidence in percent)
CalculateFireSeverity(brightness, confidence) ==
    LET b == IF brightness > 380 THEN 30
             ELSE IF brightness > 350 THEN 20
             ELSE IF brightness > 320 THEN 10 ELSE 0
        c == IF confidence > 80 THEN 10
             ELSE IF confidence < 50 THEN -10 ELSE 0
    IN  Max(10, Min(100, 30 + b + c))

\* calculateFireBoundingBox: radiusKm = max(2, (brightness - 300) / 20)
FireBoundingBox(lng, lat, brightness) ==
    BoxAround(lng, lat, RadiusDegrees(Max(40, brightness - 300), 20))

\* "if (!fireData.latitude || !fireData.longitude) continue" and
\* "if (confidence < 30) continue"
FirmsSkips(row) == ~row.hasPosition \/ row.confidence < FirmsMinConfidence

FirmsEventData(row, now) ==
    [ _id         |-> "nasa-firms-" \o row.country \o "-" \o row.acq_date \o "-"
                        \o ToString(row.lat) \o "-" \o ToString(row.lng),
      source      |-> "nasa-firms",
      type        |-> "fire",
      severity    |-> CalculateFireSeverity(row.brightness, row.confidence),
      geometry    |-> <<row.lng, row.lat>>,
      area_bbox   |-> FireBoundingBox(row.lng, row.lat, row.brightness),
      starts_at   |-> row.acq_time,
      properties  |-> [place |-> "", location_name |-> ""],
      ingested_at |-> now ]

FirmsRow(country, confidence, brightness) ==
    [country |-> country, acq_date |-> "2024-01-01", acq_time |-> 0, hasPosition |-> TRUE,
     lat |-> 3100, lng |-> 101600, confidence |-> confidence, brightness |-> brightness]

\* the CSV of one country: detections, or none
FirmsCsvs(country) ==
    { << >>,
      << FirmsRow(country, 90, 390) >>,
      << FirmsRow(country, 20, 330), FirmsRow(country, 60, 390) >> }

----------------------------------------------------------------------------
(* OpenWeatherService, one request per monitoring location *)

\* getMonitoringLocations (the first four of the ten cities)
MonitoringLocations ==
    << [name |-> "kuala-lumpur", lat |-> 3139, lng |-> 101687],
       [name |-> "singapore",    lat |-> 1352, lng |-> 103820],
       [name |-> "penang",       lat |-> 5416, lng |-> 100333],
       [name |-> "johor-bahru",  lat |-> 1493, lng |-> 103741] >>

\* mapAlertType; the event name is the set of its lower-cased words
MapAlertType(eventWords) ==
    IF eventWords \cap {"flood", "rain"} # {} THEN "flood"
    ELSE IF eventWords \cap {"fire", "smoke"} # {} THEN "fire"
    ELSE IF eventWords \cap {"air", "pollution"} # {} THEN "aqi"
    ELSE "storm"

\* calculateSeverity over the words of event + description
CalculateSeverity(text) ==
    IF text \cap {"extreme", "severe", "major"} # {} THEN 80
    ELSE IF text \cap {"moderate", "warning"} # {} THEN 60
    ELSE IF text \cap {"minor", "watch"} # {} THEN 40
    ELSE 50

\* isSevereWeather (wind in m/s, temp in degrees Celsius, humidity in percent)
IsSevereWeather(weather) ==
    \/ weather.wind_speed > 15
    \/ weather.temp > 40
    \/ weather.temp < -10
    \/ weather.humidity > 90

\* calculateWeatherSeverity
CalculateWeatherSeverity(weather) ==
    LET w == IF weather.wind_speed > 25 THEN 20
             ELSE IF weather.wind_speed > 15 THEN 10 ELSE 0
        t == IF weather.temp > 45 \/ weather.temp < -20 THEN 20
             ELSE IF weather.temp > 40 \/ weather.temp < -10 THEN 10 ELSE 0
    IN  Min(30 + w + t, 100)

\* calculateAlertBoundingBox: radiusKm = max(5, severity * 10)
AlertBoundingBox(lng, lat, severity) ==
    BoxAround(lng, lat, RadiusDegrees(Max(5, severity), 1))

\* one entry of data.alerts
WeatherAlertEventData(alert, now) ==
    LET severity == CalculateSeverity(alert.event \cup alert.description)
    IN  [ _id         |-> "openweather-" \o alert.location.name \o "-"
                            \o ToString(alert.start) \o "-" \o alert.eventName,
          source      |-> "openweather",
          type        |-> MapAlertType(alert.event),
          severity    |-> severity,
          geometry    |-> <<alert.location.lng, alert.location.lat>>,
          area_bbox   |-> AlertBoundingBox(alert.location.lng, alert.location.lat, severity),
          starts_at   |-> alert.start,
          properties  |-> [place |-> "", location_name |-> alert.location.name],
          ingested_at |-> now ]

\* data.current when isSevereWeather holds: the _id carries Date.now()
SevereWeatherEventData(weather, now) ==
    LET severity == CalculateWeatherSeverity(weather)
    IN  [ _id         |-> "openweather-severe-" \o weather.location.name \o "-" \o ToString(now),
          source      |-> "openweather",
          type        |-> "storm",
          severity    |-> severity,
          geometry    |-> <<weather.location.lng, weather.location.lat>>,
          area_bbox   |-> AlertBoundingBox(weather.location.lng, weather.location.lat, severity),
          starts_at   |-> now,
          properties  |-> [place |-> "", location_name |-> weather.location.name],
          ingested_at |-> now ]

WeatherAlert(location, eventName, event, description) ==
    [location |-> location, start |-> 0, eventName |-> eventName, event |-> event,
     description |-> description]

CurrentWeather(location, wind_speed, temp, humidity) ==
    [location |-> location, wind_speed |-> wind_speed, temp |-> temp, humidity |-> humidity]

\* the one-call answers for a location: its alerts, then its current block
WeatherAnswers(location) ==
    { [alerts |-> << >>, current |-> CurrentWeather(location, 5, 30, 60)],
      [alerts |-> << >>, current |-> CurrentWeather(location, 30, 30, 60)],
      [alerts |-> << WeatherAlert(location, "Flood-Warning", {"flood", "warning"}, {"heavy", "rain"}) >>,
       current |-> CurrentWeather(location, 5, 30, 60)] }

----------------------------------------------------------------------------
(* OpenAQService, one request per country *)

AqCountries == <<"MY", "SG", "ID", "TH">>

AqiThreshold == 100

\* aqiToSeverity
AqiToSeverity(aqi) ==
    IF aqi <= 50 THEN 20
    ELSE IF aqi <= 100 THEN 40
    ELSE IF aqi <= 150 THEN 60
    ELSE IF aqi <= 200 THEN 75
    ELSE IF aqi <= 300 THEN 90
    ELSE 100

\* calculateAQIBoundingBox: radiusKm = max(5, min(50, aqi / 4))
AQIBoundingBox(lng, lat, aqi) ==
    BoxAround(lng, lat, RadiusDegrees(Max(20, Min(200, aqi)), 4))

\* "if (aqiData.aqi <= 100) continue"; aqi is calculateAQI of the location's
\* measurements, drawn as an input
AqSkips(group) == group.aqi <= AqiThreshold

\* new Date().toISOString().split('T')[0]
Today(now) == "day" \o ToString(now \div 1440)

AqEventData(group, now) ==
    [ _id         |-> "openaq-" \o group.country \o "-" \o group.locationKey \o "-" \o Today(now),
      source      |-> "openaq",
      type        |-> "aqi",
      severity    |-> AqiToSeverity(group.aqi),
      geometry    |-> <<group.lng, group.lat>>,
      area_bbox   |-> AQIBoundingBox(group.lng, group.lat, group.aqi),
      starts_at   |-> group.date,
      properties  |-> [place |-> "", location_name |-> group.location],
      ingested_at |-> now ]

AqGroup(country, station, aqi) ==
    [country |-> country, locationKey |-> station.key, lat |-> station.lat, lng |-> station.lng,
     aqi |-> aqi, date |-> 0, location |-> station.name]

StationA == [key |-> "3.1390-101.6869", lat |-> 3139, lng |-> 101687, name |-> "Station A"]
StationB == [key |-> "1.3521-103.8198", lat |-> 1352, lng |-> 103820, name |-> "Station B"]

\* the location groups of one country's answer
AqAnswers(country) ==
    { << AqGroup(country, StationA, 85) >>,
      << AqGroup(country, StationA, 160) >>,
      << AqGroup(country, StationA, 100), AqGroup(country, StationB, 101) >> }

----------------------------------------------------------------------------
(* Adapter calls.  A slot is <<route, adapter>>: the adapter as called by   *)
(* its own route ("single") or by the batch route ("all").                  *)

Adapters == {"usgs", "nasa-eonet", "nasa-firms", "openweather", "openaq"}

\* the adapters the batch route calls (Promise.allSettled([...]))
BatchAdapters == {"usgs", "nasa-eonet", "openweather", "openaq"}

\* adapters that loop over sub-units with a try/catch per sub-unit
LoopAdapters == {"nasa-firms", "openweather", "openaq"}

Slots == {<<"single", a>> : a \in Adapters} \cup {<<"all", a>> : a \in BatchAdapters}

Tag(kind, recs) == [i \in 1..Len(recs) |-> [kind |-> kind, d |-> recs[i]]]

\* number of sub-units one call of the adapter visits
NumUnits(a) ==
    CASE a = "nasa-firms"  -> Min(MaxUnits, Len(FirmsCountries))
      [] a = "openweather" -> Min(MaxUnits, Len(MonitoringLocations))
      [] a = "openaq"      -> Min(MaxUnits, Len(AqCountries))
      [] OTHER             -> 1

\* what the upstream can answer to the request for sub-unit u, as the
\* sequence of records the adapter then walks through
Answers(a, u) ==
    CASE a = "usgs"        -> {Tag("usgs", f) : f \in UsgsFeeds}
      [] a = "nasa-eonet"  -> {Tag("eonet", f) : f \in EonetFeeds}
      [] a = "nasa-firms"  -> {Tag("firms", c) : c \in FirmsCsvs(FirmsCountries[u])}
      [] a = "openweather" -> {Tag("alert", w.alerts) \o Tag("current", <<w.current>>) :
                                   w \in WeatherAnswers(MonitoringLocations[u])}
      [] a = "openaq"      -> {Tag("openaq", g) : g \in AqAnswers(AqCountries[u])}

\* an adapter that writes every record it is given
SkipsNothing(item) == FALSE

\* the record is dropped without a write
Skips(item) ==
    CASE item.kind = "usgs"    -> UsgsSkips(item.d)
      [] item.kind = "eonet"   -> EonetSkips(item.d)
      [] item.kind = "firms"   -> FirmsSkips(item.d)
      [] item.kind = "alert"   -> FALSE
      [] item.kind = "current" -> ~IsSevereWeather(item.d)
      [] item.kind = "openaq"  -> AqSkips(item.d)

\* the document the adapter builds for the record at time now
EventData(item, now) ==
    CASE item.kind = "usgs"    -> UsgsEventData(item.d, now)
      [] item.kind = "eonet"   -> EonetEventData(item.d, now)
      [] item.kind = "firms"   -> FirmsEventData(item.d, now)
      [] item.kind = "alert"   -> WeatherAlertEventData(item.d, now)
      [] item.kind = "current" -> SevereWeatherEventData(item.d, now)
      [] item.kind = "openaq"  -> AqEventData(item.d, now)

\* the counter the adapter increments after the write: the severe-weather
\* write always counts as inserted, the others compare ingested_at
CountedAs(item, result, eventData) ==
    IF item.kind = "current" THEN "inserted"
    ELSE IF CountsAsInserted(result, eventData) THEN "inserted" ELSE "updated"

\* caught: the errors logged by the catch inside the loop over sub-units;
\* created: history, the writes of the call whose _id the store did not hold
IdleRun ==
    [st |-> "idle", unit |-> 0, recs |-> << >>, inserted |-> 0, updated |-> 0,
     error |-> "", caught |-> 0, created |-> 0]

StartedRun == [IdleRun EXCEPT !.st = "fetch", !.unit = 1]

\* leave the current sub-unit: next iteration of the for loop, or return
NextUnit(a, run) ==
    IF run.unit < NumUnits(a)
    THEN [run EXCEPT !.st = "fetch", !.unit = @ + 1, !.recs = << >>]
    ELSE [run EXCEPT !.st = "fulfilled", !.recs = << >>]

RECURSIVE DropSkipped(_)
\* the records up to the next one that is written ("continue")
DropSkipped(recs) ==
    IF recs = << >> \/ ~Skips(Head(recs)) THEN recs ELSE DropSkipped(Tail(recs))

\* run on to the next await: the write of the next record that is kept, or,
\* past the last record, the return of USGS and EONET and the rate-limiting
\* "await new Promise(resolve => setTimeout(resolve, ...))" of the others
Continue(a, run, recs) ==
    LET kept == DropSkipped(recs)
    IN  IF kept # << >> THEN [run EXCEPT !.st = "write", !.recs = kept]
        ELSE IF a \in LoopAdapters THEN [run EXCEPT !.st = "delay", !.recs = << >>]
        ELSE [run EXCEPT !.st = "fulfilled", !.recs = << >>]

Settled(run) == run.st \in {"fulfilled", "rejected"}

\* await fetch(url) and the parse of its body
Fetch(s) ==
    /\ runs[s].st = "fetch"
    /\ \E ans \in Answers(s[2], runs[s].unit) :
           runs' = [runs EXCEPT ![s] = Continue(s[2], @, ans)]
    /\ UNCHANGED <<heatmap, called, clock, events, subs, calls, resp, pending, fanout, prevAttempts, seen, env, subReqs>>

\* FIRMS: csvText.includes('No data'); OpenAQ: !data.results.  "continue"
\* goes to the next country, past the rate-limiting delay.
NoData(s) ==
    /\ s[2] \in {"nasa-firms", "openaq"}
    /\ runs[s].st = "fetch"
    /\ runs' = [runs EXCEPT ![s] = NextUnit(s[2], @)]
    /\ UNCHANGED <<heatmap, called, clock, events, subs, calls, resp, pending, fanout, prevAttempts, seen, env, subReqs>>

\* the run with the write of item counted
Counted(run, item, result, eventData) ==
    IF CountedAs(item, result, eventData) = "inserted"
    THEN [run EXCEPT !.inserted = @ + 1]
    ELSE [run EXCEPT !.updated = @ + 1]

\* await Event.findOneAndUpdate for the next record, and the count
Upsert(s) ==
    /\ runs[s].st = "write"
    /\ LET item == Head(runs[s].recs)
           eventData == EventData(item, clock)
           result == Returned(events, eventData)
       IN  /\ events' = FindOneAndUpdate(events, eventData)
           /\ runs' = [runs EXCEPT ![s] =
                  Continue(s[2],
                           [Counted(@, item, result, eventData) EXCEPT
                                !.created = IF eventData._id \in DOMAIN events THEN @ ELSE @ + 1],
                           Tail(runs[s].recs))]
           /\ seen' = [seen EXCEPT ![item.kind] = @ \cup {item.d}]
    /\ UNCHANGED <<heatmap, called, clock, subs, calls, resp, pending, fanout, prevAttempts, env, subReqs>>

\* the rate-limiting timer fires
Delay(s) ==
    /\ runs[s].st = "delay"
    /\ runs' = [runs EXCEPT ![s] = NextUnit(s[2], @)]
    /\ UNCHANGED <<heatmap, called, clock, events, subs, calls, resp, pending, fanout, prevAttempts, seen, env, subReqs>>

\* a handler whose every catch logs and rethrows
ThrowsAndRethrows(s) ==
    /\ runs[s].st \in {"fetch", "write"}
    /\ runs' = [runs EXCEPT ![s] =
           [@ EXCEPT !.st = "rejected", !.recs = << >>, !.error = "upstream failed"]]
    /\ UNCHANGED <<heatmap, called, clock, events, subs, calls, resp, pending, fanout, prevAttempts, seen, env, subReqs>>

\* the fetch, the parse or the store write throws.  USGS and EONET log and
\* rethrow (the call rejects); the looping adapters catch inside the loop
\* body and go on with the next sub-unit, past the delay.
Throws(s) ==
    /\ runs[s].st \in {"fetch", "write"}
    /\ runs' = [runs EXCEPT ![s] =
           IF s[2] \in LoopAdapters THEN [NextUnit(s[2], @) EXCEPT !.caught = @ + 1]
           ELSE [@ EXCEPT !.st = "rejected", !.recs = << >>, !.error = "upstream failed"]]
    /\ UNCHANGED <<heatmap, called, clock, events, subs, calls, resp, pending, fanout, prevAttempts, seen, env, subReqs>>

----------------------------------------------------------------------------
(* The ingestion routes (routes/ingest) *)

Routes == Adapters \cup {"all"}

\* the type filter each route hands to AlertService.processNewEvents
Filters == {"earthquake", "fire", "storm", "aqi", "any"}

FanoutFilter(a) ==
    CASE a = "usgs"        -> "earthquake"
      [] a = "nasa-eonet"  -> "any"
      [] a = "nasa-firms"  -> "fire"
      [] a = "openweather" -> "storm"
      [] a = "openaq"      -> "aqi"

NoResponse == [status |-> 0]

\* "if (!this.API_KEY) throw new Error(...)" at the top of ingestWeatherAlerts
CallOf(a) ==
    IF a = "openweather" /\ ~env.OPENWEATHER_API_KEY
    THEN [IdleRun EXCEPT !.st = "rejected", !.error = "OpenWeather API key not configured"]
    ELSE StartedRun

\* "if (result.inserted > 0) AlertService.processNewEvents(type)", detached
Triggered(queue, inserted, filter) ==
    IF inserted > 0 THEN [queue EXCEPT ![filter] = @ + 1] ELSE queue

\* POST /usgs, /eonet, /firms, /openweather, /openaq: the adapter is called
PostIngest(a) ==
    /\ calls < MaxCalls
    /\ runs[<<"single", a>>].st = "idle"
    /\ runs' = [runs EXCEPT ![<<"single", a>>] = CallOf(a)]
    /\ calls' = calls + 1
    /\ UNCHANGED <<heatmap, called, clock, events, subs, resp, pending, fanout, prevAttempts, seen, env, subReqs>>

\* the awaited adapter call settles: fanout is triggered and res.json sent
Respond(a) ==
    LET run == runs[<<"single", a>>]
    IN  /\ Settled(run)
        /\ IF run.st = "fulfilled"
           THEN /\ pending' = Triggered(pending, run.inserted, FanoutFilter(a))
                /\ resp' = [resp EXCEPT ![a] =
                       [status |-> 200, success |-> TRUE, source |-> a,
                        inserted |-> run.inserted, updated |-> run.updated]]
           ELSE /\ pending' = pending
                /\ resp' = [resp EXCEPT ![a] =
                       [status |-> 500, success |-> FALSE, source |-> a, error |-> run.error]]
        /\ runs' = [runs EXCEPT ![<<"single", a>>] = IdleRun]
        /\ UNCHANGED <<heatmap, called, clock, events, subs, calls, fanout, prevAttempts, seen, env, subReqs>>

\* the order of the array handed to Promise.allSettled in POST /all
BatchOrder == <<"usgs", "nasa-eonet", "openweather", "openaq">>

\* one entry of results for a settled promise
BatchEntry(a, run) ==
    IF run.st = "fulfilled"
    THEN [source |-> a, success |-> TRUE, inserted |-> run.inserted, updated |-> run.updated]
    ELSE [source |-> a, success |-> FALSE, error |-> run.error]

BatchResults(rs) == [i \in 1..Len(BatchOrder) |-> BatchEntry(BatchOrder[i], rs[<<"all", BatchOrder[i]>>])]

RECURSIVE SumOf(_, _)
\* results.reduce((sum, r) => sum + (r[field] || 0), 0)
SumOf(results, field) ==
    IF results = << >> THEN 0
    ELSE (IF field \in DOMAIN Head(results) THEN Head(results)[field] ELSE 0)
         + SumOf(Tail(results), field)

\* POST /all: the adapters are started together
PostAll ==
    /\ calls < MaxCalls
    /\ \A a \in BatchAdapters : runs[<<"all", a>>].st = "idle"
    /\ runs' = [s \in Slots |-> IF s[1] = "all" THEN CallOf(s[2]) ELSE runs[s]]
    /\ calls' = calls + 1
    /\ UNCHANGED <<heatmap, called, clock, events, subs, resp, pending, fanout, prevAttempts, seen, env, subReqs>>

\* Promise.allSettled resolves: per-source results, totals, trigger, res.json
RespondAll ==
    /\ \A a \in BatchAdapters : Settled(runs[<<"all", a>>])
    /\ LET results == BatchResults(runs)
           totalInserted == SumOf(results, "inserted")
       IN  /\ pending' = Triggered(pending, totalInserted, "any")
           /\ resp' = [resp EXCEPT !["all"] =
                  [status |-> 200, success |-> TRUE, total_sources |-> Len(results),
                   total_inserted |-> totalInserted,
                   total_updated |-> SumOf(results, "updated"),
                   results |-> results]]
    /\ runs' = [s \in Slots |-> IF s[1] = "all" THEN IdleRun ELSE runs[s]]
    /\ UNCHANGED <<heatmap, called, clock, events, subs, calls, fanout, prevAttempts, seen, env, subReqs>>

\* The Authorization header is a sequence of pieces of text, << >> when the
\* request has none; a token that is not there is << >>, one that is there
\* is a sequence of one string.
RECURSIVE ReplaceFirst(_, _)
\* String.prototype.replace(piece, ''): the first occurrence is removed
ReplaceFirst(header, piece) ==
    IF header = << >> THEN ""
    ELSE IF Head(header) = piece THEN ReplaceFirst(Tail(header), "")
    ELSE Head(header) \o ReplaceFirst(Tail(header), piece)

\* req.headers.authorization?.replace('Bearer ', '')
BearerToken(header) ==
    IF header = << >> THEN << >> ELSE << ReplaceFirst(header, "Bearer ") >>

\* a check that only compares the token with the configured one
VerifyIngestTokenByEquality(header, configured) ==
    BearerToken(header) = configured

\* verifyIngestToken: next() is called unless
\* "!token || token !== process.env.INGEST_TOKEN"
VerifyIngestToken(header, configured) ==
    LET token == BearerToken(header)
    IN  ~(token = << >> \/ token = << "" >> \/ token # configured)

Headers ==
    { << >>, <<"Bearer ", "secret">>, <<"Bearer ", "wrong">>, <<"Bearer ">>,
      <<"secret">>, <<"Basic ", "secret">>, <<"Bearer ", "Bearer ", "secret">> }

\* the routes requested with these headers
GuardedRoutes == {"usgs", "openaq"}

\* a request to an ingestion route: router.use(verifyIngestToken) answers
\* 401, or the handler of the route starts
Request(a, header) ==
    /\ calls < MaxCalls
    /\ calls' = calls + 1
    /\ \A s \in Slots : runs[s].st = "idle"
    /\ called' = [fn |-> "verifyIngestToken", args |-> <<header>>, route |-> a, n |-> calls + 1,
                  value |-> VerifyIngestToken(header, env.INGEST_TOKEN)]
    /\ IF VerifyIngestToken(header, env.INGEST_TOKEN)
       THEN /\ runs' = [runs EXCEPT ![<<"single", a>>] = CallOf(a)]
            /\ resp' = resp
       ELSE /\ runs' = runs
            /\ resp' = [resp EXCEPT ![a] = [status |-> 401, error |-> "Unauthorized"]]
    /\ UNCHANGED <<heatmap, clock, events, subs, pending, fanout, prevAttempts, seen, env, subReqs>>

\* time passes
Tick ==
    /\ clock + TickMinutes <= MaxClock
    /\ clock' = clock + TickMinutes
    /\ UNCHANGED <<heatmap, called, events, subs, runs, calls, resp, pending, fanout, prevAttempts, seen, env, subReqs>>

----------------------------------------------------------------------------
(* The subscription routes (routes/subscriptions) *)

Channels == {"webpush", "email", "sms"}

\* uuidv4(): an identifier no stored subscription has
NewSubscriptionId == "sub" \o ToString(subReqs + 1)

\* request bodies of POST /: three places (inside the footprint of quake q1,
\* on its western edge, outside it) and three contact identities
PlaceInside  == [lat |-> 3000, lng |-> 101000]
PlaceOnEdge  == [lat |-> 3000, lng |-> 98658]
PlaceOutside == [lat |-> 3000, lng |-> 98657]
PlaceOnEquator  == [lat |-> 0, lng |-> 101000]
PlaceOnMeridian == [lat |-> 51477, lng |-> 0]

PostBody(contact, place, radius_km, channels) ==
    [email |-> contact.email, phone |-> contact.phone, push |-> contact.push,
     location |-> place, radius_km |-> radius_km, channels |-> channels]

Endpoint1 == [email |-> "", phone |-> "", push |-> "https://push/ep1"]
Endpoint2 == [email |-> "", phone |-> "", push |-> "https://push/ep2"]
Endpoint3 == [email |-> "", phone |-> "", push |-> "https://push/ep3"]
Mailbox   == [email |-> "a@example.com", phone |-> "", push |-> ""]

PostBodies ==
    { PostBody(Endpoint1, PlaceInside, 50, {"webpush"}),
      PostBody(Endpoint2, PlaceOnEdge, 1, {"webpush"}),
      PostBody(Endpoint3, PlaceOutside, 100, {"webpush"}),
      PostBody(Mailbox, PlaceInside, 50, {"email"}) }

\* the validation of POST /: the 400 answers
PostRejects(body) ==
    \/ body.location.lat = 0 \/ body.location.lng = 0
    \/ body.channels = {}
    \/ body.radius_km = 0 \/ body.radius_km < 1 \/ body.radius_km > 100
    \/ "email" \in body.channels /\ body.email = ""
    \/ "sms" \in body.channels /\ body.phone = ""
    \/ "webpush" \in body.channels /\ body.push = ""

\* the stored subscription with the same contact: email first, else phone,
\* else push endpoint (Subscription.findOne)
ExistingSubscription(store, body) ==
    IF body.email # "" THEN {i \in DOMAIN store : store[i].email = body.email}
    ELSE IF body.phone # "" THEN {i \in DOMAIN store : store[i].phone = body.phone}
    ELSE IF body.push # "" THEN {i \in DOMAIN store : store[i].push = body.push}
    ELSE {}

\* subscriptionData; undefined contact fields are not written by the update
SubscriptionData(id, body, old) ==
    [ _id       |-> id,
      email     |-> IF body.email # "" THEN body.email ELSE old.email,
      phone     |-> IF body.phone # "" THEN body.phone ELSE old.phone,
      push      |-> IF body.push # "" THEN body.push ELSE old.push,
      location  |-> <<body.location.lng, body.location.lat>>,
      radius_km |-> body.radius_km,
      channels  |-> body.channels ]

NoContact == [email |-> "", phone |-> "", push |-> ""]

\* POST / with this body and the status it answers: 400 from the
\* validation, else create, or update the subscription of the same contact.
\* The update hands subscriptionData, which carries the fresh _id, to
\* findByIdAndUpdate: the store either refuses to change _id (the handler
\* answers 500 and nothing is written) or writes the other fields.
PostAnswers(body, status) ==
    /\ subReqs < MaxSubRequests
    /\ subReqs' = subReqs + 1
    /\ IF PostRejects(body) THEN status = 400 /\ subs' = subs
       ELSE LET found == ExistingSubscription(subs, body)
            IN  IF found # {}
                THEN \/ status = 500 /\ subs' = subs
                     \/ /\ status = 200
                        /\ \E i \in found :
                               subs' = [subs EXCEPT ![i] = SubscriptionData(i, body, subs[i])]
                ELSE /\ status = 200
                     /\ subs' = [i \in DOMAIN subs \cup {NewSubscriptionId} |->
                                    IF i = NewSubscriptionId
                                    THEN SubscriptionData(i, body, NoContact)
                                    ELSE subs[i]]
    /\ UNCHANGED <<heatmap, clock, events, runs, calls, resp, pending, fanout, prevAttempts, seen, env>>

PostSubscriptionWith(bodies) ==
    /\ \E body \in bodies, status \in {200, 400, 500} : PostAnswers(body, status)
    /\ UNCHANGED called

PostSubscription == PostSubscriptionWith(PostBodies)

\* bodies with one, two or no usable contact
Contact(email, phone, push) == [email |-> email, phone |-> phone, push |-> push]

ContactBodies ==
    { PostBody(Contact("", "+60123", ""), PlaceInside, 50, {"sms"}),
      PostBody(Contact("a@example.com", "+60123", ""), PlaceInside, 50, {"email"}),
      PostBody(Contact("a@example.com", "", ""), PlaceOnEdge, 50, {"email"}),
      PostBody(Contact("b@example.com", "+60123", ""), PlaceInside, 50, {"email", "sms"}),
      PostBody(Contact("", "", "https://push/ep1"), PlaceInside, 50, {"webpush"}),
      PostBody(Contact("a@example.com", "", "https://push/ep1"), PlaceInside, 50, {"email", "webpush"}),
      PostBody(Contact("", "", "https://push/ep1"), PlaceInside, 50, {"email"}),
      PostBody(Contact("", "+60123", ""), PlaceInside, 50, {"webpush", "sms"}),
      PostBody(Contact("", "+60456", ""), PlaceOutside, 100, {"sms"}),
      PostBody(Contact("", "+60456", "https://push/ep2"), PlaceOnEdge, 1, {"webpush"}),
      PostBody(Contact("b@example.com", "", "https://push/ep2"), PlaceInside, 50, {"email"}),
      PostBody(Contact("", "", "https://push/ep2"), PlaceOutside, 100, {"webpush"}),
      PostBody(Contact("c@example.com", "", ""), PlaceOnEquator, 50, {"email"}),
      PostBody(Contact("c@example.com", "", ""), PlaceOnMeridian, 100, {"email"}) }

\* POST / with one of these bodies; the request and its status are kept
PostContact ==
    \E body \in ContactBodies, status \in {200, 400, 500} :
        /\ PostAnswers(body, status)
        /\ called' = [fn |-> "POST /subscriptions", args |-> <<body>>, value |-> status]

\* bodies of PUT /:subscriptionId
PutBodies == { [channels |-> {"webpush", "email"}], [channels |-> {}] }

\* PUT /:subscriptionId: findByIdAndUpdate(subscriptionId, updates)
PutSubscription ==
    /\ subReqs < MaxSubRequests
    /\ subReqs' = subReqs + 1
    /\ \E i \in DOMAIN subs, updates \in PutBodies :
           subs' = [subs EXCEPT ![i] = [@ EXCEPT !.channels = updates.channels]]
    /\ UNCHANGED <<heatmap, called, clock, events, runs, calls, resp, pending, fanout, prevAttempts, seen, env>>

\* DELETE /:subscriptionId: findByIdAndDelete
DeleteSubscription ==
    /\ subReqs < MaxSubRequests
    /\ subReqs' = subReqs + 1
    /\ \E i \in DOMAIN subs : subs' = [j \in DOMAIN subs \ {i} |-> subs[j]]
    /\ UNCHANGED <<heatmap, called, clock, events, runs, calls, resp, pending, fanout, prevAttempts, seen, env>>

----------------------------------------------------------------------------
(* AlertService: the fanout *)

RecentWindow == 10      \* 10 * 60 * 1000 ms
MinAlertSeverity == 40  \* severity: { $gte: 4.0 }

\* the query of processNewEvents: ingested_at >= since, severity >= 4.0 and,
\* with a filter, type = filter
RecentEvents(store, filter, now) ==
    { store[i] : i \in { j \in DOMAIN store :
          /\ store[j].ingested_at >= now - RecentWindow
          /\ store[j].severity >= MinAlertSeverity
          /\ filter \in {"any", store[j].type} } }

\* a containment test that leaves the edges of the box out
WithinBoxStrict(point, box) ==
    /\ box[1] < point[1] /\ point[1] < box[3]
    /\ box[2] < point[2] /\ point[2] < box[4]

\* $geoWithin: { $box: [[minLng, minLat], [maxLng, maxLat]] }
WithinBox(point, box) ==
    /\ box[1] <= point[1] /\ point[1] <= box[3]
    /\ box[2] <= point[2] /\ point[2] <= box[4]

\* findAffectedSubscriptions: location within area_bbox, channels not empty
FindAffectedSubscriptions(store, event) ==
    { i \in DOMAIN store :
          /\ WithinBox(store[i].location, event.area_bbox)
          /\ store[i].channels # {} }

\* severity.toFixed(1)
ToFixed1(severity) == ToString(severity \div 10) \o "." \o ToString(severity % 10)

\* getLocationDescription
LocationDescription(event) ==
    IF event.properties.place # "" THEN "near " \o event.properties.place
    ELSE IF event.properties.location_name # "" THEN "in " \o event.properties.location_name
    ELSE "at " \o ToString(event.geometry[2]) \o "N, " \o ToString(event.geometry[1]) \o "E"

\* generateAlertContent (the guidance sentence of the body is left out)
GenerateAlertContent(event) ==
    LET location == LocationDescription(event)
    IN  CASE event.type = "earthquake" ->
                [title  |-> "M" \o ToFixed1(event.severity) \o " Earthquake " \o location,
                 body   |-> "A magnitude " \o ToFixed1(event.severity) \o " earthquake occurred " \o location,
                 action |-> IF event.severity >= 60 THEN "Take immediate shelter"
                            ELSE "Stay alert for aftershocks"]
          [] event.type = "flood" ->
                [title  |-> "Flood Alert " \o location,
                 body   |-> "Flooding conditions detected " \o location,
                 action |-> "Avoid low-lying areas and flooded roads"]
          [] event.type = "storm" ->
                [title  |-> "Severe Weather " \o location,
                 body   |-> "Severe weather conditions " \o location,
                 action |-> "Stay indoors and avoid travel"]
          [] event.type = "fire" ->
                [title  |-> "Wildfire Alert " \o location,
                 body   |-> "Active wildfire detected " \o location,
                 action |-> "Monitor evacuation routes and air quality"]
          [] event.type = "aqi" ->
                [title  |-> "Air Quality Alert " \o location,
                 body   |-> "Air quality is unhealthy " \o location,
                 action |-> "Limit outdoor activities, use masks if necessary"]
          [] OTHER ->
                [title  |-> "Environmental Alert " \o location,
                 body   |-> "Environmental hazard detected " \o location,
                 action |-> "Stay informed and follow local guidance"]

\* the 'alert' message emitted to the room of the subscription
AlertMessage(sub, event, content, now) ==
    [ room      |-> "alerts:" \o sub._id,
      name      |-> "alert",
      event_id  |-> event._id,
      type      |-> event.type,
      severity  |-> event.severity,
      title     |-> content.title,
      body      |-> content.body,
      action    |-> content.action,
      location  |-> event.geometry,
      timestamp |-> now ]

\* the message emitted on events:global
GlobalMessage(event, content) ==
    [ name |-> "events:global", type |-> "new_event",
      event |-> [id |-> event._id, type |-> event.type, severity |-> event.severity,
                 location |-> event.geometry, message |-> content.title] ]

\* "subscription.channels.includes('webpush') && subscription.push"
SendsWebPush(sub) == "webpush" \in sub.channels /\ sub.push # ""

\* the channels sendAlert has a dispatch for (SMS and email are a TODO)
DispatchedChannels(sub) == IF SendsWebPush(sub) THEN {"webpush"} ELSE {}

\* a sendAlert that keeps a delivery record and skips what the run before sent
SendAlertOnce(sub, event, content, pushFails, now) ==
    IF <<event._id, sub._id, "webpush">> \in prevAttempts
    THEN [attempts |-> {}, alerts |-> {}, raised |-> FALSE]
    ELSE [ attempts |-> { <<event._id, sub._id, c>> : c \in DispatchedChannels(sub) },
           alerts   |-> IF SendsWebPush(sub) /\ ~pushFails
                        THEN {AlertMessage(sub, event, content, now)} ELSE {},
           raised   |-> FALSE ]

\* sendAlert: what one subscription gets.  pushFails: sendNotification rejects.
\* The room message comes after the awaited push, inside the same try.
SendAlert(sub, event, content, pushFails, now) ==
    [ attempts |-> { <<event._id, sub._id, c>> : c \in DispatchedChannels(sub) },
      alerts   |-> IF SendsWebPush(sub) /\ ~pushFails
                   THEN {AlertMessage(sub, event, content, now)} ELSE {},
      raised   |-> FALSE ]

\* a dispatch that gives up on the whole batch at the first rejection
SendAlertsFailFast(store, affected, event, content, pushFailures, now) ==
    [ i \in affected |->
        IF pushFailures \cap affected # {}
        THEN [attempts |-> {}, alerts |-> {}, raised |-> FALSE]
        ELSE SendAlert(store[i], event, content, FALSE, now) ]

\* Promise.allSettled(alertPromises): every sendAlert runs to its end
SendAlerts(store, affected, event, content, pushFailures, now) ==
    [ i \in affected |-> SendAlert(store[i], event, content, i \in pushFailures, now) ]

NothingDone == [attempts |-> {}, alerts |-> {}, global |-> {}, affected |-> {}, raised |-> FALSE]

\* a processEventAlerts without its try/catch: the error leaves the loop
ProcessEventAlertsUncaught(store, event, failure, pushFailures, now) ==
    IF failure # "none" THEN [NothingDone EXCEPT !.raised = TRUE]
    ELSE LET affected == FindAffectedSubscriptions(store, event)
         IN  IF affected = {} THEN NothingDone
             ELSE LET content == GenerateAlertContent(event)
                      sent == SendAlerts(store, affected, event, content, pushFailures, now)
                  IN  [ attempts |-> UNION {sent[i].attempts : i \in affected},
                        alerts   |-> UNION {sent[i].alerts : i \in affected},
                        global   |-> {GlobalMessage(event, content)},
                        affected |-> affected,
                        raised   |-> FALSE ]

\* processEventAlerts for one selected event.  failure: where an error is
\* thrown, if anywhere ("subscriptions": Subscription.find; "content":
\* generateAlertContent); the try/catch logs it.
ProcessEventAlerts(store, event, failure, pushFailures, now) ==
    IF failure = "subscriptions" THEN NothingDone
    ELSE LET affected == FindAffectedSubscriptions(store, event)
         IN  IF affected = {} THEN NothingDone
             ELSE IF failure = "content" THEN [NothingDone EXCEPT !.affected = affected]
             ELSE LET content == GenerateAlertContent(event)
                      sent == SendAlerts(store, affected, event, content, pushFailures, now)
                  IN  [ attempts |-> UNION {sent[i].attempts : i \in affected},
                        alerts   |-> UNION {sent[i].alerts : i \in affected},
                        global   |-> {GlobalMessage(event, content)},
                        affected |-> affected,
                        raised   |-> FALSE ]

Failures == {"none", "subscriptions", "content"}

\* the try/catch of processNewEvents: an error thrown inside is logged
NewEventsRaises(thrown) == FALSE

IdleFanout ==
    [ st |-> "idle", filter |-> "any", todo |-> {}, selected |-> {}, processed |-> {},
      attempts |-> {}, alerts |-> {}, global |-> {},
      failed |-> {}, pushFailed |-> {}, raised |-> FALSE ]

\* processNewEvents(filter) begins: Event.find answers, or throws (caught)
StartFanout(filter) ==
    /\ pending[filter] > 0
    /\ fanout.st = "idle"
    /\ pending' = [pending EXCEPT ![filter] = @ - 1]
    /\ \E findFails \in BOOLEAN :
          LET recentEvents == IF findFails THEN {} ELSE RecentEvents(events, filter, clock)
          IN  fanout' = [IdleFanout EXCEPT
                  !.st = "running",
                  !.filter = filter,
                  !.todo = recentEvents,
                  !.selected = {e._id : e \in recentEvents},
                  !.failed = IF findFails THEN {"Event.find"} ELSE {}]
    /\ UNCHANGED <<heatmap, called, clock, events, subs, runs, calls, resp, prevAttempts, seen, env, subReqs>>

\* one turn of "for (const event of recentEvents) await processEventAlerts"
AlertEvent ==
    /\ fanout.st = "running"
    /\ \E event \in fanout.todo, failure \in Failures, pushFailures \in SUBSET DOMAIN subs :
          LET out == ProcessEventAlerts(subs, event, failure, pushFailures, clock)
          IN  fanout' = [fanout EXCEPT
                  !.todo = IF out.raised THEN {} ELSE @ \ {event},
                  !.processed = IF out.raised THEN @ ELSE @ \cup {event._id},
                  !.attempts = @ \cup out.attempts,
                  !.alerts = @ \cup out.alerts,
                  !.global = @ \cup out.global,
                  !.failed = @ \cup (IF failure = "none" THEN {} ELSE {event._id}),
                  !.pushFailed = @ \cup {<<event._id, i>> : i \in pushFailures \cap out.affected},
                  !.raised = NewEventsRaises(out.raised)]
    /\ UNCHANGED <<heatmap, called, clock, events, subs, runs, calls, resp, pending, prevAttempts, seen, env, subReqs>>

\* processNewEvents returns; the detached promise settles and nothing keeps
\* its outcome but the attempts, remembered for the comparison of two runs
ReturnFanout ==
    /\ fanout.st = "running"
    /\ fanout.todo = {}
    /\ fanout' = IdleFanout
    /\ prevAttempts' = fanout.attempts
    /\ UNCHANGED <<heatmap, called, clock, events, subs, runs, calls, resp, pending, seen, env, subReqs>>

----------------------------------------------------------------------------
(* AlertService: the risk assessment                                       *)
(*                                                                         *)
(* Decays are in thousandths, distances in metres, radii in kilometres.   *)
(* A score is severity (tenths) x time decay x distance decay, so one     *)
(* point of score is ScoreUnit.                                            *)

ScoreUnit == 10000000
HalfDay == 720              \* the 12 hours of Math.exp(-hoursAgo / 12)
RiskWindow == 1440          \* 24 * 60 * 60 * 1000 ms
MetresPerDegree == 111195   \* R * Math.PI / 180 with R = 6371 km
ResultLimit == 10           \* .limit(10)

\* Math.exp(n), at the whole n the model calls it with
ExpThousandths(n) ==
    CASE n = 2  -> 7389
      [] n = 1  -> 2718
      [] n = 0  -> 1000
      [] n = -1 -> 368
      [] n = -2 -> 135
      [] n = -3 -> 50
      [] n = -4 -> 18
      [] n = -5 -> 7
      [] n = -6 -> 2
      [] n < -6 -> 0

\* an exponential decay with no floor under it
CalculateTimeDecayUnfloored(eventTime, now) ==
    ExpThousandths((eventTime - now) \div HalfDay)

\* calculateTimeDecay: hoursAgo = (Date.now() - eventTime) / 3600000,
\* Math.max(0.1, Math.exp(-hoursAgo / 12)); event times are whole
\* multiples of 12 hours away from now
CalculateTimeDecay(eventTime, now) ==
    Max(100, ExpThousandths((eventTime - now) \div HalfDay))

\* calculateDistanceDecay: Math.max(0.1, 1 - distance / maxRadius)
CalculateDistanceDecay(distance, maxRadius) ==
    Max(100, 1000 - distance \div maxRadius)

\* calculateDistance (haversine) between two points of one meridian, where
\* it is R times the difference of the latitudes in radians
CalculateDistance(lat1, lng1, lat2, lng2) ==
    CASE lng1 = lng2 -> (Max(lat2 - lat1, lat1 - lat2) * MetresPerDegree) \div 1000

\* the level of the score rounded to one decimal
ScoreToLevelOfRounded(score) ==
    IF score + ScoreUnit \div 20 >= 70 * (ScoreUnit \div 10) THEN "very high"
    ELSE IF score + ScoreUnit \div 20 >= 55 * (ScoreUnit \div 10) THEN "high"
    ELSE IF score + ScoreUnit \div 20 >= 40 * (ScoreUnit \div 10) THEN "moderate"
    ELSE IF score + ScoreUnit \div 20 >= 20 * (ScoreUnit \div 10) THEN "low"
    ELSE "very low"

\* scoreToLevel
ScoreToLevel(score) ==
    IF score >= 70 * (ScoreUnit \div 10) THEN "very high"
    ELSE IF score >= 55 * (ScoreUnit \div 10) THEN "high"
    ELSE IF score >= 40 * (ScoreUnit \div 10) THEN "moderate"
    ELSE IF score >= 20 * (ScoreUnit \div 10) THEN "low"
    ELSE "very low"

RiskTypes == {"earthquake", "flood", "storm", "fire", "aqi"}

\* Event.find({geometry: {$near: {..., $maxDistance: radiusKm * 1000}},
\*             starts_at: {$gte: now - 24 h}})
NearAndRecent(store, lat, lng, radiusKm, now) ==
    { i \in DOMAIN store :
        /\ CalculateDistance(lat, lng, store[i].geometry[2], store[i].geometry[1])
               <= radiusKm * 1000
        /\ store[i].starts_at >= now - RiskWindow }

\* .sort({severity: -1}).limit(10)
MostSevere(store, ids) ==
    IF Cardinality(ids) <= ResultLimit THEN ids
    ELSE CHOOSE top \in SUBSET ids :
             /\ Cardinality(top) = ResultLimit
             /\ \A i \in top, j \in ids \ top : store[i].severity >= store[j].severity

\* adjustedSeverity = event.severity * timeDecay * distanceDecay
AdjustedSeverity(event, lat, lng, radiusKm, now) ==
    event.severity
      * CalculateTimeDecay(event.starts_at, now)
      * CalculateDistanceDecay(
            CalculateDistance(lat, lng, event.geometry[2], event.geometry[1]), radiusKm)

\* Math.max over the scores, from the initial 0
MaxScore(scores) ==
    IF scores = {} THEN 0
    ELSE Max(0, CHOOSE x \in scores : \A y \in scores : x >= y)

\* an assessment whose overall level is taken from the rounded score
AssessCurrentRiskLevelOfShown(store, lat, lng, radiusKm, now) ==
    LET recentEvents == MostSevere(store, NearAndRecent(store, lat, lng, radiusKm, now))
        ofType(t) == {i \in recentEvents : store[i].type = t}
        score(t) == MaxScore({AdjustedSeverity(store[i], lat, lng, radiusKm, now) : i \in ofType(t)})
        maxScore == MaxScore({score(t) : t \in RiskTypes})
    IN  [ location      |-> [lat |-> lat, lng |-> lng],
          active_events |-> Cardinality(recentEvents),
          risks         |-> [t \in RiskTypes |->
                                [level |-> ScoreToLevel(score(t)), score |-> score(t),
                                 events |-> ofType(t)]],
          risk_score    |-> (maxScore + ScoreUnit \div 20) \div (ScoreUnit \div 10),
          overall_risk  |-> ScoreToLevelOfRounded(maxScore) ]

\* assessCurrentRisk; risk_score, rounded to one decimal, is in tenths
AssessCurrentRisk(store, lat, lng, radiusKm, now) ==
    LET recentEvents == MostSevere(store, NearAndRecent(store, lat, lng, radiusKm, now))
        ofType(t) == {i \in recentEvents : store[i].type = t}
        score(t) == MaxScore({AdjustedSeverity(store[i], lat, lng, radiusKm, now) : i \in ofType(t)})
        maxScore == MaxScore({score(t) : t \in RiskTypes})
    IN  [ location      |-> [lat |-> lat, lng |-> lng],
          active_events |-> Cardinality(recentEvents),
          risks         |-> [t \in RiskTypes |->
                                [level |-> ScoreToLevel(score(t)), score |-> score(t),
                                 events |-> ofType(t)]],
          risk_score    |-> (maxScore + ScoreUnit \div 20) \div (ScoreUnit \div 10),
          overall_risk  |-> ScoreToLevel(maxScore) ]

\* the store the assessment reads: up to two of these documents, as the
\* seismic and the weather adapter build them for records that started 36,
\* 24 and 12 hours ago, now, and 12 hours from now
RiskPlace == MonitoringLocations[1]

Quake(id, mag, time) ==
    UsgsEventData([UsgsFeature(id, mag, RiskPlace.lng, RiskPlace.lat) EXCEPT !.time = time], 0)

Warning(eventName, event, start) ==
    WeatherAlertEventData(
        [WeatherAlert(RiskPlace, eventName, event, {"heavy", "rain"}) EXCEPT !.start = start], 0)

RiskDocuments ==
    { Quake("r1", 70, 0), Quake("r2", 52, -HalfDay), Quake("r3", 30, -2 * HalfDay),
      Quake("r4", 61, -3 * HalfDay),
      Warning("Flood-Warning", {"flood", "warning"}, HalfDay),
      Warning("Severe-Storm", {"severe", "storm"}, 0) }

\* eleven quakes at one place: ten of magnitude 7.0 that started 24 hours
\* ago and one of magnitude 6.1 that starts now
CrowdedDocuments ==
    { Quake("c" \o ToString(n), 70, -2 * HalfDay) : n \in 1..ResultLimit }
        \cup { Quake("c" \o ToString(ResultLimit + 1), 61, 0) }

StoreOf(docs) == [i \in {d._id : d \in docs} |-> CHOOSE d \in docs : d._id = i]

RiskStores ==
    { StoreOf(docs) : docs \in {ds \in SUBSET RiskDocuments : Cardinality(ds) <= 2} }
        \cup { StoreOf(CrowdedDocuments) }

\* query points on the meridian of the events: at them, 222 m away, just
\* inside and just outside 50 km
RiskQueries ==
    { [lat |-> RiskPlace.lat + d, lng |-> RiskPlace.lng, radius_km |-> r] :
          d \in {0, 2, 449, 450}, r \in {50, 100} }

\* GET /now: AlertService.assessCurrentRisk(latitude, longitude, radius)
CallAssessCurrentRisk ==
    /\ \E q \in RiskQueries :
           called' = [fn |-> "assessCurrentRisk", args |-> <<q.lat, q.lng, q.radius_km>>,
                      value |-> AssessCurrentRisk(events, q.lat, q.lng, q.radius_km, clock)]
    /\ UNCHANGED <<heatmap, clock, events, subs, runs, calls, resp, pending, fanout, prevAttempts, seen,
                   env, subReqs>>

\* how long ago the event started: from now to five days, in steps of 12 hours
EventAges == {n * HalfDay : n \in 0..10}

CallCalculateTimeDecay ==
    /\ \E age \in EventAges :
           called' = [fn |-> "calculateTimeDecay", args |-> <<clock - age>>,
                      value |-> CalculateTimeDecay(clock - age, clock)]
    /\ UNCHANGED <<heatmap, clock, events, subs, runs, calls, resp, pending, fanout, prevAttempts, seen,
                   env, subReqs>>

\* distances up to one and a half times the radius, the radius among them
CallCalculateDistanceDecay ==
    /\ \E maxRadius \in {1, 50, 100}, permille \in {0, 500, 900, 999, 1000, 1001, 1500} :
           called' = [fn |-> "calculateDistanceDecay", args |-> <<maxRadius * permille, maxRadius>>,
                      value |-> CalculateDistanceDecay(maxRadius * permille, maxRadius)]
    /\ UNCHANGED <<heatmap, clock, events, subs, runs, calls, resp, pending, fanout, prevAttempts, seen,
                   env, subReqs>>

CallScoreToLevel ==
    /\ \E tenths \in {0, 19, 20, 39, 40, 54, 55, 69, 70, 100, 163} :
           called' = [fn |-> "scoreToLevel", args |-> <<tenths * (ScoreUnit \div 10)>>,
                      value |-> ScoreToLevel(tenths * (ScoreUnit \div 10))]
    /\ UNCHANGED <<heatmap, clock, events, subs, runs, calls, resp, pending, fanout, prevAttempts, seen,
                   env, subReqs>>

----------------------------------------------------------------------------
(* GET /heatmap (routes/risk)                                              *)
(*                                                                         *)
(* The resolution, like the coordinates, is in thousandths of a degree.   *)

GridLimit == 1000           \* gridPoints.length > 1000
HeatmapRadius == 25         \* assessCurrentRisk(point.lat, point.lng, 25)

\* farther than every bounding box: a loop variable that keeps decreasing
\* stays at minus this
FarthestCoordinate == 1000000

\* the order of the keys of riskAssessment.risks
RiskOrder == <<"earthquake", "flood", "storm", "fire", "aqi">>

\* Object.entries(risk.risks).sort((a, b) => b.score - a.score)[0][0]: the
\* sort is stable, so of the types with the largest score the first one
DominantRisk(risks) ==
    LET top == CHOOSE x \in {risks[t].score : t \in RiskTypes} :
                   \A t \in RiskTypes : x >= risks[t].score
        first == CHOOSE k \in 1..Len(RiskOrder) :
                     /\ risks[RiskOrder[k]].score = top
                     /\ \A j \in 1..(k - 1) : risks[RiskOrder[j]].score # top
    IN  RiskOrder[first]

\* the entry of one grid point: the assessment, or what the catch returns
HeatmapEntry(store, point, fails, now) ==
    IF fails
    THEN [lat |-> point.lat, lng |-> point.lng, risk_score |-> 0, risk_level |-> "unknown",
          dominant_risk |-> "none"]
    ELSE LET risk == AssessCurrentRisk(store, point.lat, point.lng, HeatmapRadius, now)
         IN  [lat |-> point.lat, lng |-> point.lng, risk_score |-> risk.risk_score,
              risk_level |-> risk.overall_risk, dominant_risk |-> DominantRisk(risk.risks)]

\* req.query: bbox is << >> when the parameter is missing, else west,
\* south, east, north.  The boxes are one meridian wide, the meridian of
\* the stored events.
HeatmapLng == MonitoringLocations[1].lng
HeatmapLat == MonitoringLocations[1].lat

HeatmapQueries ==
    { [bbox |-> <<HeatmapLng, HeatmapLat - 100, HeatmapLng, HeatmapLat + 100>>, resolution |-> 100],
      [bbox |-> <<HeatmapLng, HeatmapLat - 100, HeatmapLng, HeatmapLat + 100>>, resolution |-> 200],
      [bbox |-> << >>, resolution |-> 100],
      [bbox |-> <<HeatmapLng, 0, HeatmapLng, 200>>, resolution |-> 100],
      [bbox |-> <<HeatmapLng, 1, HeatmapLng, GridLimit + 1>>, resolution |-> 1],
      [bbox |-> <<HeatmapLng, HeatmapLat + 100, HeatmapLng, HeatmapLat - 100>>, resolution |-> 100],
      [bbox |-> <<HeatmapLng, HeatmapLat - 100, HeatmapLng, HeatmapLat + 100>>, resolution |-> 0],
      [bbox |-> <<HeatmapLng, HeatmapLat - 100, HeatmapLng, HeatmapLat + 100>>, resolution |-> -100000] }

BadRequest(query, error) ==
    [st |-> "answered", query |-> query, status |-> 400, error |-> error]

\* the handler up to the loops: the two 400 answers, or lat = south
GetHeatmap ==
    /\ heatmap.st = "idle"
    /\ \E query \in HeatmapQueries :
          heatmap' =
              IF query.bbox = << >>
              THEN BadRequest(query, "Bounding box (bbox) is required")
              ELSE IF \E k \in 1..4 : query.bbox[k] = 0
              THEN BadRequest(query, "Invalid bounding box format. Use: west,south,east,north")
              ELSE [st |-> "grid", query |-> query, lat |-> query.bbox[2], lng |-> query.bbox[1],
                    gridPoints |-> << >>]
    /\ UNCHANGED <<clock, events, subs, runs, calls, resp, pending, fanout, prevAttempts, seen,
                   env, subReqs, called>>

\* gridPoints.push: of a list longer than the limit only the length is
\* ever read, so the points past GridLimit + 1 are not kept
Push(gridPoints, point) ==
    IF Len(gridPoints) > GridLimit THEN gridPoints ELSE Append(gridPoints, point)

\* one test of the two for loops and what follows it: a point is pushed,
\* a row ends, or the grid is complete and its size is checked
GridStep ==
    /\ heatmap.st = "grid"
    /\ LET west == heatmap.query.bbox[1]
           east == heatmap.query.bbox[3]
           north == heatmap.query.bbox[4]
           gridResolution == heatmap.query.resolution
       IN  heatmap' =
               IF heatmap.lat > north
               THEN IF Len(heatmap.gridPoints) > GridLimit
                    THEN BadRequest(heatmap.query, "Grid too large. Reduce area or increase resolution.")
                    ELSE [heatmap EXCEPT !.st = "assess"]
               ELSE IF heatmap.lng <= east
               THEN [heatmap EXCEPT
                        !.gridPoints = Push(@, [lat |-> heatmap.lat, lng |-> heatmap.lng]),
                        !.lng = Max(@ + gridResolution, -FarthestCoordinate)]
               ELSE [heatmap EXCEPT !.lat = Max(@ + gridResolution, -FarthestCoordinate), !.lng = west]
    /\ UNCHANGED <<clock, events, subs, runs, calls, resp, pending, fanout, prevAttempts, seen,
                   env, subReqs, called>>

\* Promise.all over the grid points, each in its own try/catch, and
\* res.json; failed: the points whose assessCurrentRisk throws
AssessGrid ==
    /\ heatmap.st = "assess"
    /\ \E failed \in SUBSET (1..Len(heatmap.gridPoints)) :
          heatmap' =
              [st |-> "answered", query |-> heatmap.query, status |-> 200, failed |-> failed,
               grid_points |-> Len(heatmap.gridPoints),
               data |-> [i \in 1..Len(heatmap.gridPoints) |->
                            HeatmapEntry(events, heatmap.gridPoints[i], i \in failed, clock)]]
    /\ UNCHANGED <<clock, events, subs, runs, calls, resp, pending, fanout, prevAttempts, seen,
                   env, subReqs, called>>

----------------------------------------------------------------------------
(* Specifications *)

Kinds == {"usgs", "eonet", "firms", "alert", "current", "openaq"}

Init ==
    /\ clock = 0
    /\ events = << >>
    /\ subs = << >>
    /\ runs = [s \in Slots |-> IdleRun]
    /\ calls = 0
    /\ resp = [r \in Routes |-> NoResponse]
    /\ pending = [f \in Filters |-> 0]
    /\ fanout = IdleFanout
    /\ prevAttempts = {}
    /\ seen = [k \in Kinds |-> {}]
    /\ env \in [OPENWEATHER_API_KEY : BOOLEAN]
    /\ subReqs = 0
    /\ called = NotCalled
    /\ heatmap = NoHeatmap

AdapterStep(s) ==
    \/ Fetch(s)
    \/ NoData(s)
    \/ Upsert(s)
    \/ Delay(s)
    \/ Throws(s)

Next ==
    \/ \E a \in Adapters : PostIngest(a)
    \/ \E a \in Adapters : Respond(a)
    \/ PostAll
    \/ RespondAll
    \/ \E s \in Slots : AdapterStep(s)
    \/ Tick
    \/ PostSubscription
    \/ PutSubscription
    \/ DeleteSubscription
    \/ \E f \in Filters : StartFanout(f)
    \/ AlertEvent
    \/ ReturnFanout

Spec == Init /\ [][Next]_vars

\* the five single-source routes alone
NextIngest ==
    \/ \E a \in Adapters : PostIngest(a)
    \/ \E a \in Adapters : Respond(a)
    \/ \E a \in Adapters : AdapterStep(<<"single", a>>)
    \/ Tick

SpecIngest == Init /\ [][NextIngest]_vars

\* the batch route alone, requested once
FirstPostAll == calls = 0 /\ PostAll

NextAll ==
    \/ FirstPostAll
    \/ RespondAll
    \/ \E a \in BatchAdapters : AdapterStep(<<"all", a>>)

SpecAll == Init /\ [][NextAll]_vars

\* what the server itself brings about: the store answers a write, a timer
\* fires, a settled Promise.allSettled resumes the handler.  Nothing in the
\* adapters bounds the wait of "await fetch(url)", so an upstream answer is
\* not among them.
FairAll ==
    /\ WF_vars(RespondAll)
    /\ \A a \in BatchAdapters :
           WF_vars(Upsert(<<"all", a>>)) /\ WF_vars(Delay(<<"all", a>>))

SpecAllFair == Init /\ [][NextAll]_vars /\ FairAll

\* requests with and without the token, to a server with and without
\* INGEST_TOKEN in its environment
InitGuarded ==
    /\ clock = 0
    /\ events = << >>
    /\ subs = << >>
    /\ runs = [s \in Slots |-> IdleRun]
    /\ calls = 0
    /\ resp = [r \in Routes |-> NoResponse]
    /\ pending = [f \in Filters |-> 0]
    /\ fanout = IdleFanout
    /\ prevAttempts = {}
    /\ seen = [k \in Kinds |-> {}]
    /\ env \in [OPENWEATHER_API_KEY : {TRUE}, INGEST_TOKEN : {<< >>, <<"secret">>}]
    /\ subReqs = 0
    /\ called = NotCalled
    /\ heatmap = NoHeatmap

NextGuarded ==
    \/ \E a \in GuardedRoutes, header \in Headers : Request(a, header)
    \/ \E a \in GuardedRoutes : Respond(a)
    \/ \E a \in GuardedRoutes : AdapterStep(<<"single", a>>)

SpecGuarded == InitGuarded /\ [][NextGuarded]_vars

\* the seismic route, the subscription routes and the fanout, in a
\* deployment with every key configured
InitFanout == Init /\ env.OPENWEATHER_API_KEY

NextFanout ==
    \/ PostIngest("usgs")
    \/ Respond("usgs")
    \/ Fetch(<<"single", "usgs">>)
    \/ Upsert(<<"single", "usgs">>)
    \/ Tick
    \/ PostSubscription
    \/ PutSubscription
    \/ \E f \in Filters : StartFanout(f)
    \/ AlertEvent
    \/ ReturnFanout

SpecFanout == InitFanout /\ [][NextFanout]_vars

\* the weather route and the fanout it triggers
NextWeatherFanout ==
    \/ PostIngest("openweather")
    \/ Respond("openweather")
    \/ Fetch(<<"single", "openweather">>)
    \/ Upsert(<<"single", "openweather">>)
    \/ Delay(<<"single", "openweather">>)
    \/ Throws(<<"single", "openweather">>)
    \/ Tick
    \/ \E f \in Filters : StartFanout(f)
    \/ AlertEvent
    \/ ReturnFanout

SpecWeatherFanout == InitFanout /\ [][NextWeatherFanout]_vars

\* the seismic adapter called by its own route and by the batch route at
\* the same time, while the other upstreams of the batch have not answered
NextConcurrent ==
    \/ PostIngest("usgs")
    \/ PostAll
    \/ Respond("usgs")
    \/ \E k \in {"single", "all"} :
          \/ Fetch(<<k, "usgs">>)
          \/ Upsert(<<k, "usgs">>)
          \/ Throws(<<k, "usgs">>)
    \/ Tick

SpecConcurrent == InitFanout /\ [][NextConcurrent]_vars

\* one GET /heatmap request, over an empty store and over a store with one
\* strong quake
HeatmapStores == { << >>, StoreOf({Quake("r1", 70, 0)}) }

InitHeatmap ==
    /\ clock = 0
    /\ events \in HeatmapStores
    /\ subs = << >>
    /\ runs = [s \in Slots |-> IdleRun]
    /\ calls = 0
    /\ resp = [r \in Routes |-> NoResponse]
    /\ pending = [f \in Filters |-> 0]
    /\ fanout = IdleFanout
    /\ prevAttempts = {}
    /\ seen = [k \in Kinds |-> {}]
    /\ env = [OPENWEATHER_API_KEY |-> TRUE]
    /\ subReqs = 0
    /\ called = NotCalled
    /\ heatmap = NoHeatmap

NextHeatmap ==
    \/ GetHeatmap
    \/ GridStep
    \/ AssessGrid

SpecHeatmap == InitHeatmap /\ [][NextHeatmap]_vars

\* the handler runs on: the loops are synchronous, and every
\* assessCurrentRisk settles
SpecHeatmapFair == SpecHeatmap /\ WF_vars(GridStep) /\ WF_vars(AssessGrid)

\* the subscription routes alone
NextSubscriptions ==
    \/ PostContact
    \/ PutSubscription
    \/ DeleteSubscription

SpecSubscriptions == InitFanout /\ [][NextSubscriptions]_vars

\* the risk assessment and its helpers, over the stores of RiskStores
InitRisk ==
    /\ clock = 0
    /\ events \in RiskStores
    /\ subs = << >>
    /\ runs = [s \in Slots |-> IdleRun]
    /\ calls = 0
    /\ resp = [r \in Routes |-> NoResponse]
    /\ pending = [f \in Filters |-> 0]
    /\ fanout = IdleFanout
    /\ prevAttempts = {}
    /\ seen = [k \in Kinds |-> {}]
    /\ env = [OPENWEATHER_API_KEY |-> TRUE]
    /\ subReqs = 0
    /\ called = NotCalled
    /\ heatmap = NoHeatmap

NextRisk ==
    \/ CallAssessCurrentRisk
    \/ CallCalculateTimeDecay
    \/ CallCalculateDistanceDecay
    \/ CallScoreToLevel

SpecRisk == InitRisk /\ [][NextRisk]_vars

----------------------------------------------------------------------------
(* Properties *)

\* the step in which the call in slot s has written its next record
Wrote(s) ==
    /\ runs[s].st = "write"
    /\ runs'[s].inserted + runs'[s].updated = runs[s].inserted + runs[s].updated + 1

\* the _id under which the call in slot s writes its next record
NextId(s) == EventData(Head(runs[s].recs), clock)._id

\* C1: in every adapter, the write of a record whose id is already stored is
\* counted in updated and not in inserted; only the write that creates the
\* id is counted in inserted.
C1_RewriteCountsAsUpdated ==
    [][\A s \in Slots : Wrote(s) =>
          IF NextId(s) \in DOMAIN events
          THEN /\ runs'[s].updated = runs[s].updated + 1
               /\ runs'[s].inserted = runs[s].inserted
          ELSE runs'[s].inserted = runs[s].inserted + 1]_vars

\* C2: writing an upstream payload that was written before never adds an
\* event to the store, and the stored document is the one just built.
C2_SamePayloadOneEvent ==
    [][\A s \in Slots : Wrote(s) =>
          LET item == Head(runs[s].recs)
          IN  item.d \in seen[item.kind] =>
                  /\ Cardinality(DOMAIN events') = Cardinality(DOMAIN events)
                  /\ events'[NextId(s)] = EventData(item, clock)]_vars

\* a processNewEvents run that has gone through its events
FanoutDone == fanout.st = "running" /\ fanout.todo = {}

\* C3: every event a run selected, and processed without an error, has its
\* "new event" notice on events:global, subscriptions in its box or not.
C3_GlobalNoticeForEverySelected ==
    FanoutDone =>
        \A id \in fanout.selected \ fanout.failed :
            \E m \in fanout.global : m.name = "events:global" /\ m.event.id = id

\* the events handled by this step of the run, without an error thrown
\* by the subscription query or the content generation
Handled == { e \in fanout.todo \ fanout'.todo : e._id \notin fanout'.failed }

HasAlert(messages, e, i) ==
    \E m \in messages : m.room = "alerts:" \o i /\ m.name = "alert" /\ m.event_id = e._id

\* C4: when the push to one matching subscription is rejected, every other
\* matching subscription sendAlert dispatches to has its attempt and its
\* alert, and the run does not raise.
C4_OtherSubscriptionsStillAlerted ==
    [][\A e \in Handled :
          LET affected == FindAffectedSubscriptions(subs, e)
              rejected == {i \in affected : <<e._id, i>> \in fanout'.pushFailed}
          IN  rejected # {} =>
                 /\ ~fanout'.raised
                 /\ \A i \in affected \ rejected : SendsWebPush(subs[i]) =>
                        /\ <<e._id, i, "webpush">> \in fanout'.attempts
                        /\ HasAlert(fanout'.alerts, e, i)]_vars

C4_Witness ==
    /\ FanoutDone
    /\ \E p \in fanout.pushFailed : \E m \in fanout.alerts :
           m.event_id = p[1] /\ m.room # "alerts:" \o p[2]

\* C5: processNewEvents never raises, and a run goes through every event it
\* selected, whatever failed while one of them was processed.
C5_FanoutNeverRaises ==
    /\ ~fanout.raised
    /\ FanoutDone => fanout.processed = fanout.selected

C5_Witness ==
    /\ FanoutDone
    /\ Cardinality(fanout.selected) >= 2
    /\ fanout.failed \cap fanout.selected # {}
    /\ fanout.global # {}

\* C6: for every affected subscription a dispatch is attempted on each of the
\* channels it lists.
C6_EveryChannelAttempted ==
    [][\A e \in Handled : \A i \in FindAffectedSubscriptions(subs, e) :
          \A c \in subs[i].channels : <<e._id, i, c>> \in fanout'.attempts]_vars

\* C7: every affected subscription that lists webpush has the alert, with
\* title, body, action, severity, location and timestamp, on alerts:<id>,
\* whether its push was accepted or rejected.
C7_RoomAlertWhateverThePush ==
    [][\A e \in Handled : \A i \in FindAffectedSubscriptions(subs, e) :
          "webpush" \in subs[i].channels =>
              AlertMessage(subs[i], e, GenerateAlertContent(e), clock) \in fanout'.alerts]_vars

\* C8: an attempt made by the run before does not keep this run from
\* dispatching the same event to the same subscription again.
C8_SecondRunSendsAgain ==
    [][\A e \in Handled : \A i \in FindAffectedSubscriptions(subs, e) :
          (SendsWebPush(subs[i]) /\ <<e._id, i, "webpush">> \in prevAttempts) =>
              <<e._id, i, "webpush">> \in fanout'.attempts]_vars

C8_Witness == FanoutDone /\ fanout.attempts \cap prevAttempts # {}

\* min <= coordinate <= max on both axes
OnOrInside(point, box) ==
    /\ box[1] <= point[1] /\ point[1] <= box[3]
    /\ box[2] <= point[2] /\ point[2] <= box[4]

\* C9: a subscription with at least one channel is affected by an event
\* exactly when its point is in the event's area_bbox, edges included; its
\* radius_km is not looked at.  Seen in the dispatch to the subscriptions
\* sendAlert dispatches to, and in the notice on events:global, which an
\* event has exactly when it has an affected subscription.
C9_AffectedIffInsideInclusive ==
    [][\A e \in Handled :
          /\ \A i \in DOMAIN subs : SendsWebPush(subs[i]) =>
                 ( <<e._id, i, "webpush">> \in fanout'.attempts
                   <=> OnOrInside(subs[i].location, e.area_bbox) )
          /\ (\E m \in fanout'.global : m.event.id = e._id)
                 <=> \E i \in DOMAIN subs :
                        subs[i].channels # {} /\ OnOrInside(subs[i].location, e.area_bbox)]_vars

\* a dispatch to a subscription on the western edge of the event's box, and
\* none to one a thousandth of a degree outside it whose radius is 100 km
C9_Witness ==
    /\ FanoutDone
    /\ \E a \in fanout.attempts :
           /\ a[1] \in DOMAIN events /\ a[2] \in DOMAIN subs
           /\ subs[a[2]].location[1] = events[a[1]].area_bbox[1]
           /\ \E j \in DOMAIN subs :
                  /\ SendsWebPush(subs[j]) /\ subs[j].radius_km = 100
                  /\ subs[j].location[1] = events[a[1]].area_bbox[1] - 1
                  /\ <<a[1], j, "webpush">> \notin fanout.attempts

\* C10: the batch response has one result for each of the five sources; when
\* the seismic source fails and the others succeed it has 4 successes and 1
\* failure with its message, and totals summed over the successes.
C10_BatchReportsFiveSources ==
    LET results == resp["all"].results
        ok == {i \in 1..Len(results) : results[i].success}
        failed == {i \in 1..Len(results) : ~results[i].success}
    IN  ( /\ resp["all"].status = 200
          /\ \A i \in failed : results[i].source = "usgs"
          /\ failed # {} )
        => /\ {results[i].source : i \in 1..Len(results)} = Adapters
           /\ Cardinality(ok) = 4
           /\ Cardinality(failed) = 1
           /\ \A i \in failed : results[i].error # ""
           /\ resp["all"].total_sources = 5
           /\ resp["all"].total_inserted = SumOf(SelectSeq(results, LAMBDA r : r.success), "inserted")
           /\ resp["all"].total_updated = SumOf(SelectSeq(results, LAMBDA r : r.success), "updated")

\* C11: a batch request of which every source but the seismic one has
\* settled is eventually answered, whether the seismic upstream answers its
\* fetch or not.
C11_BatchAnswersDespiteSilentUpstream ==
    ( /\ calls = 1 /\ resp["all"].status = 0
      /\ runs[<<"all", "usgs">>].st = "fetch"
      /\ \A a \in BatchAdapters \ {"usgs"} : Settled(runs[<<"all", a>>]) )
    ~> (resp["all"].status = 200)

\* the step in which the write of the next record of the call in slot s fails
WriteFailed(s) ==
    /\ runs[s].st = "write"
    /\ runs'[s] # runs[s]
    /\ runs'[s].inserted + runs'[s].updated = runs[s].inserted + runs[s].updated

\* C13: when the write of one record fails, the call goes on to write the
\* records of the same feed that come after it.
C13_LaterRecordsStillWritten ==
    [][\A s \in Slots : WriteFailed(s) =>
          LET later == DropSkipped(Tail(runs[s].recs))
          IN  later # << >> => runs'[s].st = "write" /\ runs'[s].recs = later]_vars

\* C12: an error thrown while a looping adapter (fire, weather, air
\* quality) handles one sub-unit is caught there: the counts so far are
\* kept, the call goes on with the next sub-unit or, after the last one,
\* returns; such a call rejects only for the missing weather key, before
\* the loop.
C12_SubUnitFailureIsCaught ==
    [][\A s \in Slots : s[2] \in LoopAdapters =>
          /\ runs'[s].st = "rejected" => s[2] = "openweather" /\ ~env.OPENWEATHER_API_KEY
          /\ runs'[s].st = "fulfilled" => runs'[s].unit = NumUnits(s[2])
          /\ runs'[s].caught = runs[s].caught + 1 =>
                 /\ runs'[s].inserted = runs[s].inserted
                 /\ runs'[s].updated = runs[s].updated
                 /\ IF runs[s].unit < NumUnits(s[2])
                    THEN runs'[s].st = "fetch" /\ runs'[s].unit = runs[s].unit + 1
                    ELSE runs'[s].st = "fulfilled"]_vars

\* a looping adapter has returned, with a record counted and an error caught
C12_Witness ==
    \E s \in Slots :
        /\ s[2] \in LoopAdapters
        /\ runs[s].st = "fulfilled" /\ runs[s].unit = NumUnits(s[2])
        /\ runs[s].caught >= 1 /\ runs[s].inserted >= 1

\* C14: every per-type score and the overall score of an assessment is
\* between 0 and 10, events that start in the future included.
C14_ScoresBetweenZeroAndTen ==
    called.fn = "assessCurrentRisk" =>
        /\ \A t \in RiskTypes :
               0 <= called.value.risks[t].score /\ called.value.risks[t].score <= 10 * ScoreUnit
        /\ 0 <= called.value.risk_score /\ called.value.risk_score <= 100

\* the level of a score that is given in units of 1 / perPoint
LevelByThresholds(score, perPoint) ==
    IF 10 * score >= 70 * perPoint THEN "very high"
    ELSE IF 10 * score >= 55 * perPoint THEN "high"
    ELSE IF 10 * score >= 40 * perPoint THEN "moderate"
    ELSE IF 10 * score >= 20 * perPoint THEN "low"
    ELSE "very low"

C16_DecaysFlooredAtOneTenth ==
    /\ called.fn = "calculateDistanceDecay" =>
           /\ called.value >= 100
           /\ called.args[1] = 1000 * called.args[2] => called.value = 100
    /\ called.fn = "calculateTimeDecay" => called.value >= 100

\* the decay of an event five days old, and of one at 1.5 times the radius
C16_Witness ==
    \/ /\ called.fn = "calculateTimeDecay"
       /\ called.args[1] = clock - 10 * HalfDay /\ called.value = 100
    \/ /\ called.fn = "calculateDistanceDecay"
       /\ called.args[1] = 1000 * called.args[2] /\ called.value = 100

\* C17: no seismic record of magnitude below 2.5 and no air-quality location
\* of AQI 100 or less is ever written to the Event collection.
C17_BelowThresholdNeverWritten ==
    /\ \A d \in seen["usgs"] : d.mag >= 25
    /\ \A d \in seen["openaq"] : d.aqi > 100
    /\ \A i \in DOMAIN events :
           /\ events[i].source = "usgs" => events[i].severity >= 25
           /\ events[i].source = "openaq" => events[i].severity > AqiToSeverity(100)

\* the feed of q1 (4.5) and q2 (2.0) and the answer of station A (AQI 100)
\* and station B (AQI 101) have been gone through: q1 and B are stored, q2
\* and A are not
C17_Witness ==
    /\ "usgs-q1" \in DOMAIN events /\ events["usgs-q1"].severity = 45
    /\ "usgs-q2" \notin DOMAIN events
    /\ \E i \in DOMAIN events :
           events[i].source = "openaq" /\ events[i].geometry = <<StationB.lng, StationB.lat>>
    /\ \A i \in DOMAIN events :
           events[i].source = "openaq" => events[i].geometry # <<StationA.lng, StationA.lat>>
    /\ \A s \in Slots : runs[s].st \in {"idle", "fulfilled"}

\* the four corners are within a thousandth of a degree of those of box
About(area_bbox, box) ==
    \A k \in 1..4 : area_bbox[k] - box[k] \in {-1, 0, 1}

\* the stored document of the record of magnitude 5.2 at lat 3.0, lng 101.0
StoredQ1 == "usgs-q1" \in DOMAIN events /\ events["usgs-q1"].severity = 52

\* C18: the record of magnitude 5.2 at lat 3.0, lng 101.0 is stored as an
\* earthquake of severity 5.2 with area_bbox about
\* [100.766, 2.766, 101.234, 3.234].
C18_BoxOfRadiusTwentySixKm ==
    StoredQ1 =>
        /\ events["usgs-q1"].type = "earthquake"
        /\ About(events["usgs-q1"].area_bbox, <<100766, 2766, 101234, 3234>>)

\* C18, amended: it is stored as an earthquake of severity 5.2 at
\* [101.0, 3.0] with area_bbox about [98.658, 0.658, 103.342, 5.342], the
\* box of radius 260 km / 111 = 2.342 degrees.
C18_BoxOfRadiusTwoHundredSixtyKm ==
    StoredQ1 =>
        /\ events["usgs-q1"].type = "earthquake"
        /\ events["usgs-q1"].source = "usgs"
        /\ events["usgs-q1"].geometry = <<101000, 3000>>
        /\ About(events["usgs-q1"].area_bbox, <<98658, 658, 103342, 5342>>)

C18_Witness == StoredQ1 /\ \E s \in Slots : s[2] = "usgs" /\ runs[s].st = "fulfilled"

\* C19: every stored subscription has, for each channel it lists, the
\* contact of that channel: email for email, phone for sms, push for webpush.
C19_ChannelsHaveContacts ==
    \A i \in DOMAIN subs :
        /\ "email" \in subs[i].channels => subs[i].email # ""
        /\ "sms" \in subs[i].channels => subs[i].phone # ""
        /\ "webpush" \in subs[i].channels => subs[i].push # ""

\* C20: no two stored subscriptions have the same email, the same phone or
\* the same push endpoint.
C20_ContactsAreUnique ==
    \A i, j \in DOMAIN subs : i # j =>
        /\ subs[i].email # "" => subs[i].email # subs[j].email
        /\ subs[i].phone # "" => subs[i].phone # subs[j].phone
        /\ subs[i].push # "" => subs[i].push # subs[j].push

AllAdjusted(lat, lng, radiusKm) ==
    { AdjustedSeverity(events[i], lat, lng, radiusKm, clock) :
          i \in NearAndRecent(events, lat, lng, radiusKm, clock) }

\* C27: the overall score of an assessment is the largest adjusted severity
\* (severity x time decay x distance decay) over all stored events within
\* the radius that started in the last 24 hours, however many there are;
\* it is returned rounded to one decimal.
C27_OverallScoreIsMaxOverAllEvents ==
    called.fn = "assessCurrentRisk" =>
        LET best == MaxScore(AllAdjusted(called.args[1], called.args[2], called.args[3]))
        IN  called.value.risk_score = (best + ScoreUnit \div 20) \div (ScoreUnit \div 10)

\* what C29 asks of a creation request: some channel, the contact of every
\* channel, a radius from 1 to 100, a latitude from -90 to 90 and a
\* longitude from -180 to 180
WellFormed(body) ==
    /\ body.channels # {}
    /\ "email" \in body.channels => body.email # ""
    /\ "sms" \in body.channels => body.phone # ""
    /\ "webpush" \in body.channels => body.push # ""
    /\ 1 <= body.radius_km /\ body.radius_km <= 100
    /\ -90000 <= body.location.lat /\ body.location.lat <= 90000
    /\ -180000 <= body.location.lng /\ body.location.lng <= 180000

\* C29: a well-formed creation request whose contact no stored subscription
\* has is answered 200 and a subscription with its location is stored, a
\* latitude or a longitude of 0 included.
C29_WellFormedRequestIsStored ==
    [][ (called' # called /\ called'.fn = "POST /subscriptions"
            /\ WellFormed(called'.args[1])
            /\ ExistingSubscription(subs, called'.args[1]) = {})
        => /\ called'.value = 200
           /\ NewSubscriptionId \in DOMAIN subs'
           /\ subs'[NewSubscriptionId].location
                  = <<called'.args[1].location.lng, called'.args[1].location.lat>> ]_vars

\* the header is "Bearer " followed by the configured token
IsBearerOf(header, configured) ==
    configured # << >> /\ header = <<"Bearer ", configured[1]>>

\* the header is the configured token with nothing before it
IsBareTokenOf(header, configured) ==
    configured # << >> /\ header = configured

\* the request just made starts no adapter and writes no event
NothingStarts == runs' = runs /\ events' = events /\ pending' = pending

FanoutSelects ==
    fanout.st = "idle" /\ fanout'.st = "running" /\ fanout'.failed = {}

\* C22: the fanout run that the first ingestion call triggers selects every
\* event of severity 4.0 or more that the call wrote, whatever its type and
\* however long the call ran.
C22_FanoutSelectsEveryNewEvent ==
    [][ (FanoutSelects /\ calls = 1)
        => \A i \in DOMAIN events :
               events[i].severity >= MinAlertSeverity => i \in fanout'.selected ]_vars

\* the handler of route a sends its answer for a fulfilled adapter call
Answered(a) ==
    /\ runs[<<"single", a>>].st = "fulfilled"
    /\ runs'[<<"single", a>>].st = "idle"

\* C23: a call whose every write found its _id in the store answers
\* inserted = 0 and triggers no fanout run; a call triggers a fanout run
\* only when it created an event.
C23_FanoutOnlyForCreatedEvents ==
    [][\A a \in Adapters : Answered(a) =>
          LET run == runs[<<"single", a>>]
          IN  /\ run.created = 0 => resp'[a].inserted = 0 /\ pending' = pending
              /\ pending' # pending => run.created > 0]_vars

\* the call in slot s goes on to the upstream request of its next sub-unit
NextSubRequest(s) ==
    /\ runs[s].unit >= 1
    /\ runs'[s].unit = runs[s].unit + 1
    /\ runs'[s].st = "fetch"

\* C24: in the adapters that loop over countries or locations, the request
\* of the next sub-unit is made only when the rate-limiting delay after the
\* earlier one has elapsed, whether that one gave data, no data or failed.
C24_DelayBetweenSubRequests ==
    [][\A s \in Slots : (s[2] \in LoopAdapters /\ NextSubRequest(s)) => runs[s].st = "delay"]_vars

\* C25: whatever the interleaving of two seismic calls, the store holds one
\* document per _id, and its severity, geometry and area_bbox are those of
\* one and the same written payload.
C25_OneEventFromOneWrite ==
    \A i \in DOMAIN events :
        /\ events[i]._id = i
        /\ \E d \in seen["usgs"] :
               LET written == UsgsEventData(d, events[i].ingested_at)
               IN  /\ written._id = i
                   /\ events[i].severity = written.severity
                   /\ events[i].geometry = written.geometry
                   /\ events[i].area_bbox = written.area_bbox

\* both calls are unanswered and the two versions of q1 have been written
C25_Witness ==
    /\ runs[<<"single", "usgs">>].st # "idle"
    /\ runs[<<"all", "usgs">>].st # "idle"
    /\ Cardinality({d \in seen["usgs"] : d.id = "q1"}) = 2
    /\ "usgs-q1" \in DOMAIN events

\* the grid of a query with a bounding box and a positive resolution: the
\* points from south and west in steps of the resolution, up to north and east
GridOf(query) ==
    LET rows == IF query.bbox[2] > query.bbox[4] THEN -1
                ELSE (query.bbox[4] - query.bbox[2]) \div query.resolution
        cols == IF query.bbox[1] > query.bbox[3] THEN -1
                ELSE (query.bbox[3] - query.bbox[1]) \div query.resolution
    IN  { [lat |-> query.bbox[2] + r * query.resolution,
           lng |-> query.bbox[1] + c * query.resolution] : r \in 0..rows, c \in 0..cols }

\* C21: a heatmap query whose grid has at most 1000 cells is answered with
\* one entry per cell, and the entry of a cell whose assessment failed has
\* risk_score 0 and risk_level "unknown".
C21_OneEntryPerGridCell ==
    (/\ heatmap.st = "answered"
     /\ heatmap.query.bbox # << >>
     /\ heatmap.query.resolution > 0
     /\ Cardinality(GridOf(heatmap.query)) <= GridLimit)
    => /\ heatmap.status = 200
       /\ Len(heatmap.data) = Cardinality(GridOf(heatmap.query))
       /\ {[lat |-> heatmap.data[i].lat, lng |-> heatmap.data[i].lng] : i \in DOMAIN heatmap.data}
              = GridOf(heatmap.query)
       /\ \A i \in heatmap.failed :
              heatmap.data[i].risk_score = 0 /\ heatmap.data[i].risk_level = "unknown"

\* C28: every heatmap request with a numeric bounding box and a numeric
\* resolution is answered, a resolution of zero or below included.  (With a
\* resolution of 0 the loop goes round with lat and lng as they were; once
\* gridPoints is past the limit such a round leaves the state unchanged.)
C28_HeatmapRequestIsAnswered ==
    (heatmap.st = "grid") ~> (heatmap.st = "answered")

====
